---- MODULE Spec2Model ----
(***************************************************************************)
(* State synchronisation and versioning subsystem of project_context:      *)
(* the sync engine (ops.update_context, ops.rebuild_project_context), the   *)
(* change scan (utils.has_files_modified_since), the local context cache    *)
(* (utils.save_context), and the snapshot manager's content store,          *)
(* snapshot creation and restore (history.SnapshotManager).                 *)
(***************************************************************************)
EXTENDS Integers, Sequences, FiniteSets, TLC

(***************************************************************************)
(* Bounds of the model.                                                    *)
(***************************************************************************)
\* wall-clock seconds that can elapse (st_mtime values, snapshot timestamps)
MaxClock == 1
MaxWorkers == 2
MaxTurns == 1
\* values the transcript's modification marker can take after its first
MaxMarker == MaxTurns + 1

(***************************************************************************)
(* The project tree.  "a" and "g" live in the project root, "b" lives in   *)
(* the sub-directory "sub".  The root holds a .gitignore that lists "g";    *)
(* "sub" holds none.                                                        *)
(***************************************************************************)
Files == {"a", "b", "g"}
Dirs == {"root", "sub"}
Parent(f) == IF f = "b" THEN "sub" ELSE "root"

\* the texts a file can hold; "CR" and "LF" are the line-ending characters
Texts == {<<"x", "LF">>, <<"y", "CR", "LF">>}

\* the texts the model writes to a file, and the files it creates and deletes
TextsOf(f) == IF f = "a" THEN Texts ELSE {<<"x", "LF">>}
Removable == {"b"}

NoValue == "none"

\* the files Path.rglob("*") yields below a folder
Under(folder) == IF folder = "root" THEN Files ELSE {f \in Files : Parent(f) = folder}

\* str(file.relative_to(folder))
RelPath(f, folder) == IF folder = "root" /\ Parent(f) = "sub" THEN "sub/" \o f ELSE f

\* the non-comment lines of folder/.gitignore ([] when the file does not exist)
IgnorePatterns(folder) == IF folder = "root" THEN {"g"} ELSE {}

\* fnmatch of a relative path against a pattern without wildcards
Fnmatch(rel, pattern) == rel = pattern

Ignored(f, folder) == \E p \in IgnorePatterns(folder) : Fnmatch(RelPath(f, folder), p)

VARIABLES
    clock,      \* wall clock, in seconds
    fs,         \* fs[f] = [exists, mtime, text] for every file of the tree
    dmtime,     \* st_mtime of the two directories
    state,      \* the project state record (dict) of the session
    remote,     \* the two Drive documents: remote.ctx (text), remote.chat (transcript)
    cache,      \* the bytes of <working dir>/<inode>/project_context.txt
    store,      \* context_store/<md5>.txt : a function from md5 to bytes
    snaps,      \* snapshots/<timestamp>/ : a function from timestamp to folder
    last,       \* what the most recent operation did (history variable)
    present,    \* the local context cache file exists
    modified,   \* the modifiedTime marker of the remote transcript
    mon,        \* the snapshot manager's fields: running, thread,
                \* last_known_chat_mod_time
    workers,    \* where each worker thread is in _loop
    fg,         \* where the foreground thread is
    taken,      \* every snapshot creation so far: what it captured
    saved,      \* the record the session last read from or wrote to
                \* project_context_state.json, {} where it is not followed
    ed,         \* run_editor_mode's locals: chat_data, chunks (the draft),
                \* unsaved_changes; open is set while the editor runs
    track       \* history variable: starts of the monitor so far (2 stands
                \* for more), whether a poll has fetched a marker since the
                \* last start, and the marker a restore left since then

vars == <<clock, fs, dmtime, state, remote, cache, store, snaps, last,
          present, modified, mon, workers, fg, taken, track, saved, ed>>

(***************************************************************************)
(* Pure helpers.                                                           *)
(***************************************************************************)
\* hashlib.md5 of a file's bytes: distinct bytes give distinct digests here
ComputeMd5(bytes) == <<"md5", bytes>>

RECURSIVE UniversalNewlines(_)
\* what reading in text mode does to line endings: "\r\n" and "\r" become "\n"
UniversalNewlines(s) ==
    IF s = <<>> THEN <<>>
    ELSE IF Head(s) = "CR"
         THEN IF Len(s) > 1 /\ s[2] = "LF"
              THEN <<"LF">> \o UniversalNewlines(Tail(Tail(s)))
              ELSE <<"LF">> \o UniversalNewlines(Tail(s))
         ELSE <<Head(s)>> \o UniversalNewlines(Tail(s))

\* Path.read_text(encoding="utf-8") of a stored context
ReadText(bytes) == [f \in DOMAIN bytes |-> UniversalNewlines(bytes[f])]

\* the context text: one section per file below target that is not ignored,
\* each holding the file's text as read in text mode
GenerateContext(target) ==
    [f \in {g \in Under(target) : fs[g].exists /\ ~Ignored(g, target)} |->
        UniversalNewlines(fs[f].text)]

\* the token estimate that comes with a generated context (one per section)
Tokens(content) == Cardinality(DOMAIN content)

\* what folder.rglob("*") yields: the existing files and the sub-directories
Entries(folder) ==
    {f \in Under(folder) : fs[f].exists} \cup (IF folder = "root" THEN {"sub"} ELSE {})

\* variant: the is_file() test is missing, directories count as files
IsFileAny(e) == TRUE

IsFile(e) == e \in Files

StMtime(e) == IF e \in Files THEN fs[e].mtime ELSE dmtime[e]

\* variant: the comparison is >= instead of >
HasFilesModifiedSinceGeq(st_mtime, folder) ==
    \E e \in Entries(folder) :
        /\ IsFile(e)
        /\ ~Ignored(e, folder)
        /\ StMtime(e) >= st_mtime

HasFilesModifiedSince(st_mtime, folder) ==
    \E e \in Entries(folder) :
        /\ IsFile(e)
        /\ ~Ignored(e, folder)
        /\ StMtime(e) > st_mtime

\* target_path of update_context
TargetPath(st) == IF st.context_scope = NoValue THEN "root" ELSE st.context_scope

(***************************************************************************)
(* Remote calls.  Each call either succeeds or fails with an HttpError,    *)
(* which the Drive client catches and turns into a None result.            *)
(***************************************************************************)
\* what a call that sends no content carries
NoData == <<>>
Call(name, id, data, ok) == [call |-> name, id |-> id, data |-> data, ok |-> ok]

\* GoogleDriveManager.update_file_from_memory: the document after the call
UpdateFileFromMemory(rem, id, content, ok) ==
    IF ok THEN [rem EXCEPT ![id] = content] ELSE rem

\* the writes a call log holds that are addressed to document id
WritesTo(calls, id) == {i \in 1..Len(calls) : calls[i].call = "update_file" /\ calls[i].id = id}
Writes(calls) == {i \in 1..Len(calls) : calls[i].call = "update_file"}

(***************************************************************************)
(* ops.update_context                                                      *)
(***************************************************************************)
\* the cheap check: nothing below the scan root is newer than last_modified
UcUpToDate(st) == ~HasFilesModifiedSince(st.last_modified, TargetPath(st))

\* utils.save_context: the bytes project_context.txt holds after write_text
SaveContext(content) == content

\* variant: the early return for identical content is missing
UcIdenticalNever(st, current_md5) == FALSE

\* current_md5 == state.get("md5")
UcIdentical(st, current_md5) == current_md5 = st.md5

\* the identical-content branch: only last_modified is assigned
UcTouchOnly(st) == [st EXCEPT !.last_modified = dmtime[TargetPath(st)]]

\* the push of the new context text to the context document
UcPush(rem, st, content, ok) ==
    [remote |-> UpdateFileFromMemory(rem, st.file_id, content, ok),
     calls  |-> <<Call("update_file", st.file_id, content, ok)>>,
     msgs   |-> IF ok THEN {} ELSE {"push_error"}]

\* AIStudioDriveManager.get_chat_ia_studio: {the transcript}, or {} for None
GetChatIaStudio(rem, id, ok) == IF ok THEN {rem[id]} ELSE {}

\* variant: a transcript that cannot be downloaded is skipped without a word
UcAnnotateSilent(rem, st, new_tokens, dlOk, wbOk) ==
    LET chat_data == GetChatIaStudio(rem, st.chat_id, dlOk)
        rd == <<Call("get_content", st.chat_id, NoData, dlOk)>>
    IN  IF chat_data = {}
        THEN [remote |-> rem, calls |-> rd, msgs |-> {}]
        ELSE IF \A c \in chat_data : c.docId # st.file_id
        THEN [remote |-> rem, calls |-> rd, msgs |-> {"context_block_not_found"}]
        ELSE LET upd == [(CHOOSE c \in chat_data : TRUE) EXCEPT !.tokenCount = new_tokens]
             IN  [remote |-> UpdateFileFromMemory(rem, st.chat_id, upd, wbOk),
                  calls  |-> rd \o <<Call("update_file", st.chat_id, upd, wbOk)>>,
                  msgs   |-> IF wbOk THEN {} ELSE {"chat_write_error"}]

\* the token-count annotation of the context block of the transcript
UcAnnotate(rem, st, new_tokens, dlOk, wbOk) ==
    LET chat_data == GetChatIaStudio(rem, st.chat_id, dlOk)
        rd == <<Call("get_content", st.chat_id, NoData, dlOk)>>
    IN  IF chat_data = {}
        THEN [remote |-> rem, calls |-> rd, msgs |-> {"chat_download_error"}]
        ELSE IF \A c \in chat_data : c.docId # st.file_id
        THEN [remote |-> rem, calls |-> rd, msgs |-> {"context_block_not_found"}]
        ELSE LET upd == [(CHOOSE c \in chat_data : TRUE) EXCEPT !.tokenCount = new_tokens]
             IN  [remote |-> UpdateFileFromMemory(rem, st.chat_id, upd, wbOk),
                  calls  |-> rd \o <<Call("update_file", st.chat_id, upd, wbOk)>>,
                  msgs   |-> IF wbOk THEN {} ELSE {"chat_write_error"}]

\* variant: the new digest is not recorded
UcAdvanceNoMd5(st, current_md5) ==
    [st EXCEPT !.last_modified = dmtime[TargetPath(st)]]

\* the two assignments that end a push
UcAdvance(st, current_md5) ==
    [st EXCEPT !.last_modified = dmtime[TargetPath(st)], !.md5 = current_md5]

\* update_context as a whole: what it returns and what it leaves behind
UpdateContext(st, cch, rem, pushOk, dlOk, wbOk) ==
    LET target      == TargetPath(st)
        content     == GenerateContext(target)
        current_md5 == ComputeMd5(SaveContext(content))
        pushed      == UcPush(rem, st, content, pushOk)
        noted       == UcAnnotate(pushed.remote, st, Tokens(content), dlOk, wbOk)
    IN  IF UcUpToDate(st)
        THEN [state |-> st, cache |-> cch, remote |-> rem, calls |-> <<>>,
              branch |-> "up_to_date", msgs |-> {}]
        ELSE IF UcIdentical(st, current_md5)
        THEN [state |-> UcTouchOnly(st), cache |-> SaveContext(content), remote |-> rem,
              calls |-> <<>>, branch |-> "identical", msgs |-> {}]
        ELSE [state |-> UcAdvance(st, current_md5), cache |-> SaveContext(content),
              remote |-> noted.remote, calls |-> pushed.calls \o noted.calls,
              branch |-> "push",
              msgs |-> pushed.msgs \cup noted.msgs]

(***************************************************************************)
(* The state after initialize_project_context, and the actions.            *)
(***************************************************************************)
FileId == "file_123"
ChatId == "chat_123"

\* a transcript: the document its context block refers to, that block's
\* token count, and the turns that follow it (the prompt and the model's
\* answer of a fresh chat, or more)
FreshBody == <<"prompt", "answer">>
Transcript(docId, tokenCount, body) == [docId |-> docId, tokenCount |-> tokenCount, body |-> body]

\* the history record of an operation: which one ran, the path it took, the
\* remote calls it made, what it reported, whether it raised, whether
\* the operation right before it was a call of update_context too, and the
\* flag it returned (FALSE for an operation that returns no flag)
UcOps == {"update", "context"}

Did(op, r, raised) ==
    [op |-> op, branch |-> r.branch, calls |-> r.calls, msgs |-> r.msgs,
     raised |-> raised, again |-> last.op \in UcOps,
     ret |-> IF "ret" \in DOMAIN r THEN r.ret ELSE FALSE,
     count |-> IF "count" \in DOMAIN r THEN r.count ELSE 0]

\* the record after a step of the environment (no operation of the program)
Idle ==
    [op |-> NoValue, branch |-> NoValue, calls |-> <<>>, msgs |-> {},
     raised |-> FALSE, again |-> FALSE, ret |-> FALSE, count |-> 0]

\* the editor is not running
NoEditor == [open |-> FALSE, chat_data |-> <<>>, chunks |-> <<>>, unsaved_changes |-> FALSE]

\* the project after initialization and the first synchronization
InitProject ==
    /\ clock = 0
    /\ \E t \in Texts :
          fs = [f \in Files |-> [exists |-> TRUE, mtime |-> 0,
                                 text |-> IF f = "a" THEN t ELSE <<"x", "LF">>]]
    /\ dmtime = [d \in Dirs |-> 0]
    /\ cache = GenerateContext("root")
    /\ state = [last_modified |-> dmtime["root"], md5 |-> ComputeMd5(cache),
                file_id |-> FileId, chat_id |-> ChatId,
                context_scope |-> NoValue, monitor_active |-> FALSE]
    /\ remote = [id \in {FileId, ChatId} |->
                    IF id = FileId THEN cache
                    ELSE Transcript(FileId, Tokens(cache), FreshBody)]
    /\ store = <<>>
    /\ snaps = <<>>
    /\ last = Idle
    /\ present = TRUE
    /\ modified = 0
    /\ mon = [running |-> FALSE, thread |-> 0, last_known_chat_mod_time |-> {}]
    /\ workers = [w \in 1..MaxWorkers |-> "none"]
    /\ fg = "idle"
    /\ taken = {}
    /\ track = [starts |-> 0, observed |-> FALSE, restored |-> {}]
    /\ ed = NoEditor

Init == InitProject /\ saved = {}

\* the cache file stays, the transcript's marker stays, no monitor thread
\* runs, no snapshot is taken and the state file is not written
Quiet == UNCHANGED <<present, modified, mon, workers, fg, taken, track, saved, ed>>

\* a second passes
Tick ==
    /\ clock < MaxClock
    /\ clock' = clock + 1
    /\ last' = Idle
    /\ UNCHANGED <<fs, dmtime, state, remote, cache, store, snaps>>

\* an existing file is rewritten (or touched, when the text is the same)
WriteFile(f, t) ==
    /\ fs[f].exists
    /\ fs' = [fs EXCEPT ![f] = [exists |-> TRUE, mtime |-> clock, text |-> t]]
    /\ last' = Idle
    /\ UNCHANGED <<clock, dmtime, state, remote, cache, store, snaps>>

\* a file is created: its directory's st_mtime changes too
CreateFile(f, t) ==
    /\ ~fs[f].exists
    /\ fs' = [fs EXCEPT ![f] = [exists |-> TRUE, mtime |-> clock, text |-> t]]
    /\ dmtime' = [dmtime EXCEPT ![Parent(f)] = clock]
    /\ last' = Idle
    /\ UNCHANGED <<clock, state, remote, cache, store, snaps>>

\* a file is deleted: its directory's st_mtime changes
DeleteFile(f) ==
    /\ fs[f].exists
    /\ fs' = [fs EXCEPT ![f] = [exists |-> FALSE, mtime |-> 0, text |-> <<>>]]
    /\ dmtime' = [dmtime EXCEPT ![Parent(f)] = clock]
    /\ last' = Idle
    /\ UNCHANGED <<clock, state, remote, cache, store, snaps>>

\* the outcomes of the remote calls update_context makes on a record: it
\* makes none unless it finds a modified file and a different digest
AllOk == <<TRUE, TRUE, TRUE>>
UcOutcomes(st) ==
    IF UcUpToDate(st) \/ UcIdentical(st, ComputeMd5(GenerateContext(TargetPath(st))))
    THEN {AllOk}
    ELSE BOOLEAN \X BOOLEAN \X BOOLEAN

\* the `update` command: update_context on the session's state record
DoUpdateContext(o) ==
    LET r == UpdateContext(state, cache, remote, o[1], o[2], o[3])
    IN  /\ state' = r.state
        /\ cache' = r.cache
        /\ remote' = r.remote
        /\ last' = Did("update", r, FALSE)
        /\ UNCHANGED <<clock, fs, dmtime, store, snaps>>

\* the `context <path>` / `context reset` command: the scope is assigned,
\* then update_context runs on the record
DoContext(scope, o) ==
    LET scoped == [state EXCEPT !.context_scope = scope]
        r == UpdateContext(scoped, cache, remote, o[1], o[2], o[3])
    IN  /\ o \in UcOutcomes(scoped)
        /\ state' = r.state
        /\ cache' = r.cache
        /\ remote' = r.remote
        /\ last' = Did("context", r, FALSE)
        /\ UNCHANGED <<clock, fs, dmtime, store, snaps>>

\* in AI Studio the user deletes the context block from the transcript
RemoveContextBlock ==
    /\ remote[ChatId].docId = FileId
    /\ remote' = [remote EXCEPT ![ChatId].docId = NoValue]
    /\ last' = Idle
    /\ UNCHANGED <<clock, fs, dmtime, state, cache, store, snaps>>

Next ==
    \/ Tick /\ Quiet
    \/ \E f \in Files : \E t \in TextsOf(f) : WriteFile(f, t) /\ Quiet
    \/ \E f \in Removable : \E t \in TextsOf(f) : CreateFile(f, t) /\ Quiet
    \/ \E f \in Removable : DeleteFile(f) /\ Quiet
    \/ \E o \in UcOutcomes(state) : DoUpdateContext(o) /\ Quiet
    \/ \E scope \in {NoValue, "sub"} : \E o \in BOOLEAN \X BOOLEAN \X BOOLEAN :
          DoContext(scope, o) /\ Quiet
    \/ RemoveContextBlock /\ Quiet

Spec == Init /\ [][Next]_vars

(***************************************************************************)
(* ops.rebuild_project_context                                             *)
(***************************************************************************)
\* the whole project is regenerated and pushed, the transcript is replaced
\* by a fresh one; a transcript that cannot be read or written raises
RebuildProjectContext(st, rem, pushOk, dlOk, wbOk) ==
    LET content     == GenerateContext("root")
        current_md5 == ComputeMd5(SaveContext(content))
        pushed      == UcPush(rem, st, content, pushOk)
        chat_data   == GetChatIaStudio(pushed.remote, st.chat_id, dlOk)
        rd          == <<Call("get_content", st.chat_id, NoData, dlOk)>>
        fresh       == Transcript(st.file_id, Tokens(content), FreshBody)
        wr          == <<Call("update_file", st.chat_id, fresh, wbOk)>>
    IN  IF chat_data = {}
        THEN [state |-> st, cache |-> SaveContext(content), remote |-> pushed.remote,
              calls |-> pushed.calls \o rd, branch |-> "no_chat",
              msgs |-> pushed.msgs \cup {"chat_download_error"}, raised |-> TRUE]
        ELSE IF ~wbOk
        THEN [state |-> st, cache |-> SaveContext(content), remote |-> pushed.remote,
              calls |-> pushed.calls \o rd \o wr, branch |-> "chat_not_saved",
              msgs |-> pushed.msgs \cup {"chat_write_error"}, raised |-> TRUE]
        ELSE [state |-> [st EXCEPT !.last_modified = dmtime["root"], !.md5 = current_md5],
              cache |-> SaveContext(content),
              remote |-> UpdateFileFromMemory(pushed.remote, st.chat_id, fresh, TRUE),
              calls |-> pushed.calls \o rd \o wr, branch |-> "rebuilt",
              msgs |-> pushed.msgs, raised |-> FALSE]

(***************************************************************************)
(* history.SnapshotManager                                                 *)
(***************************************************************************)
\* variant: the stored copy is refreshed from the cache on every snapshot
EnsureContextStoredAlways(sto, cch, context_md5) ==
    [ok |-> TRUE, store |-> [h \in DOMAIN sto \cup {context_md5} |->
                                IF h = context_md5 THEN cch ELSE sto[h]]]

\* _ensure_context_stored: an entry that exists is left alone; otherwise the
\* local context cache is copied under the digest
EnsureContextStored(sto, cch, context_md5) ==
    IF context_md5 \in DOMAIN sto
    THEN [ok |-> TRUE, store |-> sto]
    ELSE IF present
    THEN [ok |-> TRUE, store |-> [h \in DOMAIN sto \cup {context_md5} |->
                                     IF h = context_md5 THEN cch ELSE sto[h]]]
    ELSE [ok |-> FALSE, store |-> sto]

\* an empty snapshot folder
EmptyFolder == [info |-> {}, chat |-> {}]

\* snap_folder.mkdir(parents=True, exist_ok=True)
Mkdir(sn, timestamp) ==
    [t \in DOMAIN sn \cup {timestamp} |-> IF t \in DOMAIN sn THEN sn[t] ELSE EmptyFolder]

\* datetime.now().strftime("%Y%m%d_%H%M%S"): the second the call is made in
Timestamp == clock

\* variant: info.json is written whether the transcript was downloaded or not
CreateSnapshotInfoAlways(st, cch, rem, sto, sn, mod_time_str, message, dlOk) ==
    LET timestamp == Timestamp
        made      == Mkdir(sn, timestamp)
        ensured   == EnsureContextStored(sto, cch, st.md5)
        rd        == <<Call("get_content", st.chat_id, NoData, dlOk)>>
        info      == [timestamp |-> timestamp, drive_modified_time |-> mod_time_str,
                      context_md5 |-> st.md5, message |-> message]
    IN  IF ~ensured.ok
        THEN [store |-> sto, snaps |-> made, calls |-> <<>>, branch |-> "no_context",
              msgs |-> {"missing_context"}]
        ELSE IF ~dlOk
        THEN [store |-> ensured.store,
              snaps |-> [made EXCEPT ![timestamp] = [info |-> {info}, chat |-> {}]],
              calls |-> rd, branch |-> "no_chat", msgs |-> {}]
        ELSE [store |-> ensured.store,
              snaps |-> [made EXCEPT ![timestamp] = [info |-> {info}, chat |-> {rem[st.chat_id]}]],
              calls |-> rd, branch |-> "created", msgs |-> {}]

\* create_snapshot: the folder is made first, then the context is stored,
\* the transcript downloaded, and chat.prompt and info.json written
CreateSnapshot(st, cch, rem, sto, sn, mod_time_str, message, dlOk) ==
    LET timestamp == Timestamp
        made      == Mkdir(sn, timestamp)
        ensured   == EnsureContextStored(sto, cch, st.md5)
        rd        == <<Call("get_content", st.chat_id, NoData, dlOk)>>
        info      == [timestamp |-> timestamp, drive_modified_time |-> mod_time_str,
                      context_md5 |-> st.md5, message |-> message]
    IN  IF ~ensured.ok
        THEN [store |-> sto, snaps |-> made, calls |-> <<>>, branch |-> "no_context",
              msgs |-> {"missing_context"}]
        ELSE IF ~dlOk
        THEN [store |-> ensured.store, snaps |-> made, calls |-> rd,
              branch |-> "no_chat", msgs |-> {}]
        ELSE [store |-> ensured.store,
              snaps |-> [made EXCEPT ![timestamp] = [info |-> {info}, chat |-> {rem[st.chat_id]}]],
              calls |-> rd, branch |-> "created", msgs |-> {}]

\* get_all_snapshot_ids: the folders of snapshots/ that hold an info.json
GetAllSnapshotIds(sn) == {timestamp \in DOMAIN sn : sn[timestamp].info # {}}

\* create_named_snapshot: the modification marker is fetched (-1 stands for
\* "Unknown"), then create_snapshot
CreateNamedSnapshot(st, cch, rem, sto, sn, message, metaOk, dlOk) ==
    LET mod_time == IF metaOk THEN modified ELSE -1
        r == CreateSnapshot(st, cch, rem, sto, sn, mod_time, message, dlOk)
    IN  [r EXCEPT !.calls = <<Call("get_metadata", st.chat_id, NoData, metaOk)>> \o r.calls]

\* variant: a restore that gives up has already rewritten the context
\* document from the local cache
RestoreFailedDirty(st, cch, rem, why) ==
    [state |-> st, cache |-> cch,
     remote |-> UpdateFileFromMemory(rem, st.file_id, cch, TRUE),
     calls |-> <<Call("update_file", st.file_id, cch, TRUE)>>,
     branch |-> why, msgs |-> {why}, ret |-> FALSE]

\* restore_snapshot gives up: a message is printed and False returned
RestoreFailed(st, cch, rem, why) ==
    [state |-> st, cache |-> cch, remote |-> rem, calls |-> <<>>,
     branch |-> why, msgs |-> {why}, ret |-> FALSE]

\* variant: the transcript is written before the context document
RestoreWritesChatFirst(st, rem, context_content, chat_content, ctxOk, chatOk) ==
    LET r1 == UpdateFileFromMemory(rem, st.chat_id, chat_content, chatOk)
        r2 == UpdateFileFromMemory(r1, st.file_id, context_content, ctxOk)
    IN  [remote |-> r2,
         calls |-> <<Call("update_file", st.chat_id, chat_content, chatOk),
                     Call("update_file", st.file_id, context_content, ctxOk)>>]

\* the two writes of restore_snapshot; what they return is not looked at
RestoreWrites(st, rem, context_content, chat_content, ctxOk, chatOk) ==
    LET r1 == UpdateFileFromMemory(rem, st.file_id, context_content, ctxOk)
        r2 == UpdateFileFromMemory(r1, st.chat_id, chat_content, chatOk)
    IN  [remote |-> r2,
         calls |-> <<Call("update_file", st.file_id, context_content, ctxOk),
                     Call("update_file", st.chat_id, chat_content, chatOk)>>]

\* restore_snapshot: both documents are written from the snapshot, the cache
\* is replaced by the stored context and state.md5 set to its digest
RestoreSnapshot(st, cch, rem, sto, sn, timestamp, ctxOk, chatOk) ==
    IF timestamp \notin DOMAIN sn THEN RestoreFailed(st, cch, rem, "not_found")
    ELSE IF sn[timestamp].info = {} THEN RestoreFailed(st, cch, rem, "no_metadata")
    ELSE LET info == CHOOSE i \in sn[timestamp].info : TRUE
             context_md5 == info.context_md5
         IN  IF context_md5 \notin DOMAIN sto
             THEN RestoreFailed(st, cch, rem, "context_not_in_store")
             ELSE IF sn[timestamp].chat = {}
             THEN RestoreFailed(st, cch, rem, "no_chat_file")
             ELSE LET chat_content    == CHOOSE c \in sn[timestamp].chat : TRUE
                      context_content == ReadText(sto[context_md5])
                      w == RestoreWrites(st, rem, context_content, chat_content,
                                         ctxOk, chatOk)
                  IN  [state |-> [st EXCEPT !.md5 = context_md5],
                       cache |-> sto[context_md5],
                       remote |-> w.remote,
                       calls |-> w.calls,
                       branch |-> "restored",
                       msgs |-> {}, ret |-> TRUE]

\* the outcomes of the remote calls restore_snapshot makes: it makes none
\* unless the snapshot is complete and its context is in the store
RestoreOutcomes(timestamp) ==
    IF /\ timestamp \in DOMAIN snaps
       /\ snaps[timestamp].info # {}
       /\ snaps[timestamp].chat # {}
       /\ \A i \in snaps[timestamp].info : i.context_md5 \in DOMAIN store
    THEN BOOLEAN \X BOOLEAN
    ELSE {<<TRUE, TRUE>>}

\* the `reset` command
DoRebuild(pushOk, dlOk, wbOk) ==
    LET r == RebuildProjectContext(state, remote, pushOk, dlOk, wbOk)
    IN  /\ state' = r.state
        /\ cache' = r.cache
        /\ remote' = r.remote
        /\ last' = Did("rebuild", r, r.raised)
        /\ UNCHANGED <<clock, fs, dmtime, store, snaps>>

\* the `save <message>` command
DoSave(metaOk, dlOk) ==
    LET r == CreateNamedSnapshot(state, cache, remote, store, snaps, "saved", metaOk, dlOk)
    IN  /\ store' = r.store
        /\ snaps' = r.snaps
        /\ last' = Did("save", r, FALSE)
        /\ UNCHANGED <<clock, fs, dmtime, state, remote, cache>>

\* the `restore <id>` command
DoRestore(timestamp, ctxOk, chatOk) ==
    LET r == RestoreSnapshot(state, cache, remote, store, snaps, timestamp, ctxOk, chatOk)
    IN  /\ state' = r.state
        /\ cache' = r.cache
        /\ remote' = r.remote
        /\ last' = Did("restore", r, FALSE)
        /\ UNCHANGED <<clock, fs, dmtime, store, snaps>>

\* the sync engine together with the snapshot manager's foreground
\* operations, over a project in which one file is edited
NextHistory ==
    \/ Tick /\ Quiet
    \/ \E t \in Texts : WriteFile("a", t) /\ Quiet
    \/ \E o \in UcOutcomes(state) : o[2] /\ o[3] /\ DoUpdateContext(o) /\ Quiet
    \/ \E pushOk, dlOk, wbOk \in BOOLEAN :
          (dlOk \/ wbOk) /\ DoRebuild(pushOk, dlOk, wbOk) /\ Quiet
    \/ \E dlOk \in BOOLEAN : DoSave(TRUE, dlOk) /\ Quiet
    \/ \E timestamp \in 0..MaxClock : \E o \in RestoreOutcomes(timestamp) :
          DoRestore(timestamp, o[1], o[2]) /\ Quiet

SpecHistory == Init /\ [][NextHistory]_vars

(***************************************************************************)
(* Snapshots and restores, with the transcript changing in AI Studio and   *)
(* files of the working directory disappearing.                            *)
(***************************************************************************)
\* a turn is added to the transcript in AI Studio: Drive stamps the
\* document with a new modifiedTime
ChatTurn ==
    /\ modified < MaxTurns
    /\ remote' = [remote EXCEPT ![ChatId].body = Append(@, "turn")]
    /\ modified' = modified + 1
    /\ last' = Idle
    /\ UNCHANGED <<clock, fs, dmtime, state, cache, store, snaps>>

\* project_context.txt is deleted from the working directory
RemoveCacheFile ==
    /\ present
    /\ present' = FALSE
    /\ last' = Idle
    /\ UNCHANGED <<clock, fs, dmtime, state, remote, cache, store, snaps>>

\* context_store/<md5>.txt is deleted from the working directory
RemoveStoreEntry(h) ==
    /\ h \in DOMAIN store
    /\ store' = [k \in DOMAIN store \ {h} |-> store[k]]
    /\ last' = Idle
    /\ UNCHANGED <<clock, fs, dmtime, state, remote, cache, snaps>>

\* what a create_snapshot call captured, when it wrote its record
Captured(st, rem) ==
    [timestamp |-> Timestamp, chat |-> rem[st.chat_id], context_md5 |-> st.md5]

\* the `save <message>` command, and the note of what it captured
Save(dlOk) ==
    /\ DoSave(TRUE, dlOk)
    /\ taken' = IF last'.branch = "created"
                THEN taken \cup {Captured(state, remote)} ELSE taken
    /\ UNCHANGED <<present, modified, mon, workers, fg, track, saved, ed>>

\* the `restore <id>` command: stop_monitoring (no thread runs here), then
\* restore_snapshot, whose copy brings the cache file back
Restore(timestamp, ctxOk, chatOk) ==
    /\ DoRestore(timestamp, ctxOk, chatOk)
    /\ present' = (present \/ last'.ret)
    /\ UNCHANGED <<modified, mon, workers, fg, taken, track, saved, ed>>

\* the `reset` command: save_context writes the cache file (the state
\* file is followed by the session specification only, see CmdReset)
Rebuild(pushOk, dlOk, wbOk) ==
    /\ DoRebuild(pushOk, dlOk, wbOk)
    /\ present' = TRUE
    /\ UNCHANGED <<modified, mon, workers, fg, taken, track, saved, ed>>

\* snapshots and restores while the project is edited and synchronized and
\* the conversation goes on
NextSnap ==
    \/ Tick /\ Quiet
    \/ \E t \in Texts : WriteFile("a", t) /\ Quiet
    \/ ChatTurn /\ UNCHANGED <<present, mon, workers, fg, taken, track, saved, ed>>
    \/ Rebuild(TRUE, TRUE, TRUE)
    \/ \E dlOk \in BOOLEAN : Save(dlOk)
    \/ \E timestamp \in 0..MaxClock : \E o \in RestoreOutcomes(timestamp) :
          Restore(timestamp, o[1], o[2])

SpecSnap == Init /\ [][NextSnap]_vars

\* snapshots and restores while files of the working directory disappear
NextLoss ==
    \/ Tick /\ Quiet
    \/ ChatTurn /\ UNCHANGED <<present, mon, workers, fg, taken, track, saved, ed>>
    \/ RemoveCacheFile /\ UNCHANGED <<modified, mon, workers, fg, taken, track, saved, ed>>
    \/ \E h \in DOMAIN store : RemoveStoreEntry(h) /\ Quiet
    \/ \E dlOk \in BOOLEAN : Save(dlOk)
    \/ \E timestamp \in 0..MaxClock : \E o \in RestoreOutcomes(timestamp) :
          Restore(timestamp, o[1], o[2])

SpecLoss == Init /\ [][NextLoss]_vars

(***************************************************************************)
(* The background monitor: start_monitoring, stop_monitoring, _loop.       *)
(* A worker is at "test" (about to evaluate `while self.running`), at      *)
(* "poll" (inside _check_and_snapshot, its remote calls in flight), at     *)
(* "sleep" (in the inner loop, before a second has passed) or at "rested"  *)
(* (in the inner loop, a second or more later); "none" is a thread that    *)
(* does not exist or has returned from _loop.                              *)
(***************************************************************************)
Workers == 1..MaxWorkers
Alive == {w \in Workers : workers[w] # "none"}

\* start_monitoring: nothing when running is set, else the flag is set and
\* a new thread started on _loop
StartMonitoring(m, ws) ==
    IF m.running
    THEN [mon |-> m, workers |-> ws]
    ELSE LET w == CHOOSE x \in Workers : ws[x] = "none"
         IN  [mon |-> [m EXCEPT !.running = TRUE, !.thread = w],
              workers |-> [ws EXCEPT ![w] = "test"]]

\* the `monitor on` command
MonitorOn ==
    LET r == StartMonitoring(mon, workers)
    IN  /\ fg = "idle"
        /\ mon.running \/ \E x \in Workers : workers[x] = "none"
        /\ mon' = r.mon
        /\ workers' = r.workers
        /\ state' = [state EXCEPT !.monitor_active = TRUE]
        /\ last' = Idle
        /\ track' = IF mon.running THEN track
                    ELSE [starts |-> IF track.starts < 2 THEN track.starts + 1 ELSE 2,
                          observed |-> FALSE, restored |-> {}]
        /\ saved' = IF state.monitor_active THEN saved ELSE {state'}
        /\ ed' = ed
        /\ UNCHANGED <<clock, fs, dmtime, remote, cache, store, snaps,
                       present, modified, fg, taken>>

\* the `monitor off` command, first half: stop_monitoring clears the flag
\* and joins self.thread
MonitorOff ==
    /\ fg = "idle"
    /\ mon' = [mon EXCEPT !.running = FALSE]
    /\ fg' = "joining"
    /\ last' = Idle
    /\ UNCHANGED <<clock, fs, dmtime, state, remote, cache, store, snaps,
                   present, modified, workers, taken, track, saved, ed>>

\* thread.join(timeout=1.0) returns: the thread has left _loop, or a second
\* went by while its poll was waiting for Drive; the command then clears
\* monitor_active
JoinReturns ==
    /\ fg = "joining"
    /\ IF mon.thread = 0 THEN TRUE ELSE workers[mon.thread] \in {"none", "poll"}
    /\ fg' = "idle"
    /\ state' = [state EXCEPT !.monitor_active = FALSE]
    /\ saved' = IF state.monitor_active THEN {state'} ELSE saved
    /\ ed' = ed
    /\ last' = Idle
    /\ UNCHANGED <<clock, fs, dmtime, remote, cache, store, snaps,
                   present, modified, mon, workers, taken, track>>

\* variant: the loop goes on whatever the flag says
LoopTestForever(w) ==
    /\ workers[w] = "test"
    /\ workers' = [workers EXCEPT ![w] = "poll"]
    /\ last' = Idle
    /\ UNCHANGED <<clock, fs, dmtime, state, remote, cache, store, snaps,
                   present, modified, mon, fg, taken, track, saved, ed>>

\* `while self.running:` one more iteration, or the thread returns
LoopTest(w) ==
    /\ workers[w] = "test"
    /\ workers' = [workers EXCEPT ![w] = IF mon.running THEN "poll" ELSE "none"]
    /\ last' = Idle
    /\ UNCHANGED <<clock, fs, dmtime, state, remote, cache, store, snaps,
                   present, modified, mon, fg, taken, track, saved, ed>>

\* variant: a marker that was never observed counts as a different one
CheckAndSnapshotEager(m, st, cch, rem, sto, sn, metaOk, dlOk, raises) ==
    LET remote_mod_time == modified
        differs == m.last_known_chat_mod_time # {remote_mod_time}
        r == CreateSnapshot(st, cch, rem, sto, sn, remote_mod_time, NoValue, dlOk)
        meta == <<Call("get_metadata", st.chat_id, NoData, metaOk)>>
    IN  IF ~metaOk
        THEN [mon |-> m, store |-> sto, snaps |-> sn, calls |-> meta,
              branch |-> "no_metadata", msgs |-> {}]
        ELSE IF differs
        THEN [mon |-> [m EXCEPT !.last_known_chat_mod_time = {remote_mod_time}],
              store |-> r.store, snaps |-> r.snaps, calls |-> meta \o r.calls,
              branch |-> r.branch, msgs |-> r.msgs]
        ELSE [mon |-> [m EXCEPT !.last_known_chat_mod_time = {remote_mod_time}],
              store |-> sto, snaps |-> sn, calls |-> meta,
              branch |-> "same_marker", msgs |-> {}]

\* _check_and_snapshot: the marker of the transcript is fetched; when it is
\* not the one seen last, create_snapshot runs; the marker is remembered.
\* raises: the download inside create_snapshot ends with an exception that
\* get_file_content does not catch (it catches HttpError only); the
\* exception leaves _check_and_snapshot and is printed by _loop
CheckAndSnapshot(m, st, cch, rem, sto, sn, metaOk, dlOk, raises) ==
    LET remote_mod_time == modified
        differs == /\ m.last_known_chat_mod_time # {}
                   /\ m.last_known_chat_mod_time # {remote_mod_time}
        r == CreateSnapshot(st, cch, rem, sto, sn, remote_mod_time, NoValue, dlOk)
        meta == <<Call("get_metadata", st.chat_id, NoData, metaOk)>>
    IN  IF ~metaOk
        THEN [mon |-> m, store |-> sto, snaps |-> sn, calls |-> meta,
              branch |-> "no_metadata", msgs |-> {}]
        ELSE IF differs /\ raises /\ r.branch = "no_chat"
        THEN [mon |-> m, store |-> r.store, snaps |-> r.snaps,
              calls |-> meta \o r.calls, branch |-> "raised",
              msgs |-> {"Error en proceso de monitor"}]
        ELSE IF differs
        THEN [mon |-> [m EXCEPT !.last_known_chat_mod_time = {remote_mod_time}],
              store |-> r.store, snaps |-> r.snaps, calls |-> meta \o r.calls,
              branch |-> r.branch, msgs |-> r.msgs]
        ELSE [mon |-> [m EXCEPT !.last_known_chat_mod_time = {remote_mod_time}],
              store |-> sto, snaps |-> sn, calls |-> meta,
              branch |-> "same_marker", msgs |-> {}]

\* variant: a poll iteration that fails ends the thread
PollFatal(w, metaOk, dlOk, raises) ==
    LET r == CheckAndSnapshot(mon, state, cache, remote, store, snaps, metaOk, dlOk, raises)
    IN  /\ workers[w] = "poll"
        /\ workers' = [workers EXCEPT ![w] = IF r.branch \in {"raised", "no_metadata"}
                                             THEN "none" ELSE "sleep"]
        /\ mon' = r.mon
        /\ store' = r.store
        /\ snaps' = r.snaps
        /\ taken' = IF r.branch = "created"
                    THEN taken \cup {Captured(state, remote)} ELSE taken
        /\ last' = Did("auto", r, r.branch = "raised")
        /\ track' = [track EXCEPT !.observed = @ \/ metaOk]
        /\ UNCHANGED <<clock, fs, dmtime, state, remote, cache, present, modified, fg,
                       saved, ed>>

\* a worker's poll iteration completes
Poll(w, metaOk, dlOk, raises) ==
    LET r == CheckAndSnapshot(mon, state, cache, remote, store, snaps, metaOk, dlOk, raises)
    IN  /\ workers[w] = "poll"
        /\ workers' = [workers EXCEPT ![w] = "sleep"]
        /\ mon' = r.mon
        /\ store' = r.store
        /\ snaps' = r.snaps
        /\ taken' = IF r.branch = "created"
                    THEN taken \cup {Captured(state, remote)} ELSE taken
        /\ last' = Did("auto", r, r.branch = "raised")
        /\ track' = [track EXCEPT !.observed = @ \/ metaOk]
        /\ UNCHANGED <<clock, fs, dmtime, state, remote, cache, present, modified, fg,
                       saved, ed>>

\* the inner loop: it is left when the flag is found cleared, or when the
\* interval is over, which takes a second at least
SleepEnds(w) ==
    /\ workers[w] \in {"sleep", "rested"}
    /\ ~mon.running \/ workers[w] = "rested"
    /\ workers' = [workers EXCEPT ![w] = "test"]
    /\ last' = Idle
    /\ UNCHANGED <<clock, fs, dmtime, state, remote, cache, store, snaps,
                   present, modified, mon, fg, taken, track, saved, ed>>

\* a second passes while the monitor exists: sleeping workers have rested
TickMonitor ==
    /\ Tick
    /\ workers' = [w \in Workers |-> IF workers[w] = "sleep" THEN "rested" ELSE workers[w]]
    /\ UNCHANGED <<present, modified, mon, fg, taken, track, saved, ed>>

\* what one worker thread can do
WorkerStep(w) ==
    \/ LoopTest(w)
    \/ \E metaOk, dlOk, raises \in BOOLEAN :
          /\ metaOk \/ (dlOk /\ ~raises)
          /\ dlOk => ~raises
          /\ Poll(w, metaOk, dlOk, raises)
    \/ SleepEnds(w)

\* the session with its monitor: the conversation goes on in AI Studio, the
\* user switches the monitor on and off and saves by hand
NextPoll ==
    \/ TickMonitor
    \/ ChatTurn /\ UNCHANGED <<present, mon, workers, fg, taken, track, saved, ed>>
    \/ MonitorOn
    \/ MonitorOff
    \/ JoinReturns
    \/ fg = "idle" /\ Save(TRUE)
    \/ \E w \in Workers : WorkerStep(w)

SpecPoll == Init /\ [][NextPoll]_vars

\* the same, every thread that can take a step takes one in the end
SpecPollLive == SpecPoll /\ \A w \in Workers : WF_vars(WorkerStep(w))

\* the `restore <id>` command, first half: stop_monitoring clears the flag
\* and joins self.thread
StopForRestore ==
    /\ fg = "idle"
    /\ mon' = [mon EXCEPT !.running = FALSE]
    /\ fg' = "restoring"
    /\ last' = Idle
    /\ UNCHANGED <<clock, fs, dmtime, state, remote, cache, store, snaps,
                   present, modified, workers, taken, track, saved, ed>>

\* the `restore <id>` command, second half: the join has returned (the
\* thread has left _loop, or a second went by while its poll was waiting
\* for Drive) and restore_snapshot runs; Drive stamps the transcript with a
\* new modifiedTime when its write is carried out
RestoreAfterJoin(timestamp, ctxOk, chatOk) ==
    /\ fg = "restoring"
    /\ IF mon.thread = 0 THEN TRUE ELSE workers[mon.thread] \in {"none", "poll"}
    /\ modified < MaxMarker
    /\ DoRestore(timestamp, ctxOk, chatOk)
    /\ present' = (present \/ last'.ret)
    /\ modified' = IF \E i \in WritesTo(last'.calls, ChatId) : last'.calls[i].ok
                   THEN modified + 1 ELSE modified
    /\ fg' = "idle"
    /\ track' = [track EXCEPT !.restored = IF modified' # modified
                                            THEN {modified'} ELSE @]
    /\ UNCHANGED <<mon, workers, taken, saved, ed>>

\* the session with its monitor and the restore command
NextResume ==
    \/ TickMonitor
    \/ ChatTurn /\ UNCHANGED <<present, mon, workers, fg, taken, track, saved, ed>>
    \/ MonitorOn
    \/ \E w \in Workers : WorkerStep(w)
    \/ StopForRestore
    \/ \E timestamp \in 0..MaxClock : \E o \in RestoreOutcomes(timestamp) :
          RestoreAfterJoin(timestamp, o[1], o[2])

SpecResume == Init /\ [][NextResume]_vars

(***************************************************************************)
(* The commands of the interactive session with the state file.  No        *)
(* monitor thread exists in this specification: stop_monitoring finds      *)
(* running cleared and no thread to join.                                  *)
(***************************************************************************)
\* the `update` command: stop_monitoring, update_context,
\* save_project_context_state
CmdUpdate(o) ==
    /\ DoUpdateContext(o)
    /\ present' = (present \/ last'.branch # "up_to_date")
    /\ mon' = [mon EXCEPT !.running = FALSE]
    /\ saved' = {state'}
    /\ ed' = ed
    /\ UNCHANGED <<modified, workers, fg, taken, track>>

\* the `context <path>` and `context reset` commands: the scope is set,
\* update_context, save_project_context_state
CmdContext(scope, o) ==
    /\ DoContext(scope, o)
    /\ present' = (present \/ last'.branch # "up_to_date")
    /\ saved' = {state'}
    /\ ed' = ed
    /\ UNCHANGED <<modified, mon, workers, fg, taken, track>>

\* the `reset` command: stop_monitoring, rebuild_project_context,
\* save_project_context_state unless the rebuild raised
CmdReset(pushOk, dlOk, wbOk) ==
    /\ DoRebuild(pushOk, dlOk, wbOk)
    /\ present' = TRUE
    /\ mon' = [mon EXCEPT !.running = FALSE]
    /\ saved' = IF last'.raised THEN saved ELSE {state'}
    /\ ed' = ed
    /\ UNCHANGED <<modified, workers, fg, taken, track>>

\* the `restore <id>` command: stop_monitoring, restore_snapshot; nothing
\* follows the call but a message
CmdRestore(timestamp, ctxOk, chatOk) ==
    /\ DoRestore(timestamp, ctxOk, chatOk)
    /\ present' = (present \/ last'.ret)
    /\ mon' = [mon EXCEPT !.running = FALSE]
    /\ UNCHANGED <<modified, workers, fg, taken, track, saved, ed>>

NextSession ==
    \/ Tick /\ Quiet
    \/ \E t \in Texts : WriteFile("a", t) /\ Quiet
    \/ \E o \in UcOutcomes(state) : CmdUpdate(o)
    \/ \E scope \in {NoValue, "sub"} : CmdContext(scope, AllOk)
    \/ CmdReset(TRUE, TRUE, TRUE)
    \/ Save(TRUE)
    \/ \E timestamp \in 0..MaxClock : CmdRestore(timestamp, TRUE, TRUE)

\* the session starts with the record that main loaded from the state file
\* or saved to it
InitSession == InitProject /\ saved = {state}

SpecSession == InitSession /\ [][NextSession]_vars

\* the session while its monitor runs: the user edits a file, switches the
\* monitor on and gives the `context` command, which calls no
\* stop_monitoring
NextBusy ==
    \/ TickMonitor
    \/ \E t \in Texts : WriteFile("a", t) /\ Quiet
    \/ MonitorOn
    \/ \E w \in Workers : WorkerStep(w)
    \/ fg = "idle" /\ \E scope \in {NoValue, "sub"} : CmdContext(scope, AllOk)

SpecBusy == InitSession /\ [][NextBusy]_vars

(***************************************************************************)
(* The transcript editor (api_drive.py).  The transcript document is its   *)
(* chunk list, chat.chunkedPrompt.chunks; positions are counted from 1     *)
(* here, from 0 in the source.  marker: COMMIT_TASK_MARKER occurs in the   *)
(* chunk's text.                                                           *)
(***************************************************************************)
\* length of the chunk lists the editor is run on
MaxChunks == 3

ChunksText(role, marker, finishReason) ==
    [kind |-> "text", role |-> role, marker |-> marker, finishReason |-> finishReason]
ChunksDocument ==
    [kind |-> "doc", role |-> "user", marker |-> FALSE, finishReason |-> NoValue]
ChunksImage ==
    [kind |-> "image", role |-> "user", marker |-> FALSE, finishReason |-> NoValue]

\* the chunks a downloaded transcript is made of: references, the user's
\* texts (no finishReason) and the model's texts
ChunkSet ==
    {ChunksDocument, ChunksImage,
     ChunksText("user", FALSE, NoValue), ChunksText("user", TRUE, NoValue),
     ChunksText("model", FALSE, "STOP"), ChunksText("model", FALSE, "MAX_TOKENS"),
     ChunksText("model", TRUE, "STOP")}

ChunkedPrompt(n) == UNION {[1..k -> ChunkSet] : k \in 0..n}

IsChunksText(chunk) == chunk.kind = "text"
\* isinstance(chunk, (ChunksDocument, ChunksImage)) or hasattr(chunk, "driveDocument")
IsReference(chunk) == chunk.kind \in {"doc", "image"}
\* isinstance(chunk, ChunksText) and COMMIT_TASK_MARKER in chunk.text
HasMarker(chunk) == IsChunksText(chunk) /\ chunk.marker

Least(S) == CHOOSE i \in S : \A j \in S : i <= j
Greatest(S) == CHOOSE i \in S : \A j \in S : j <= i

\* variant: the cut is made at the last chunk of the model
ClearChunksLastModel(chunks) ==
    LET models == {i \in 1..Len(chunks) : chunks[i].role = "model"}
        refs == {i \in 1..Len(chunks) : IsReference(chunks[i])}
        doc_idx == Greatest(refs)
        cut_idx == IF models # {} THEN Greatest(models)
                   ELSE IF Len(chunks) > doc_idx /\ IsChunksText(chunks[doc_idx + 1])
                        THEN doc_idx + 1 ELSE doc_idx
        new_chunks == SubSeq(chunks, 1, cut_idx)
    IN  IF chunks = <<>>
        THEN [chunks |-> chunks, ret |-> TRUE, branch |-> "empty", count |-> 0]
        ELSE IF models = {} /\ refs = {}
        THEN [chunks |-> chunks, ret |-> FALSE, branch |-> "invalid", count |-> 0]
        ELSE IF Len(new_chunks) = Len(chunks)
        THEN [chunks |-> chunks, ret |-> TRUE, branch |-> "clean", count |-> 0]
        ELSE [chunks |-> new_chunks, ret |-> TRUE, branch |-> "trimmed",
              count |-> Len(chunks) - Len(new_chunks)]

\* variant: without a chunk of the model the first reference is the anchor
ClearChunksFirstDoc(chunks) ==
    LET models == {i \in 1..Len(chunks) : chunks[i].role = "model"}
        refs == {i \in 1..Len(chunks) : IsReference(chunks[i])}
        doc_idx == Least(refs)
        cut_idx == IF models # {} THEN Least(models)
                   ELSE IF Len(chunks) > doc_idx /\ IsChunksText(chunks[doc_idx + 1])
                        THEN doc_idx + 1 ELSE doc_idx
        new_chunks == SubSeq(chunks, 1, cut_idx)
    IN  IF chunks = <<>>
        THEN [chunks |-> chunks, ret |-> TRUE, branch |-> "empty", count |-> 0]
        ELSE IF models = {} /\ refs = {}
        THEN [chunks |-> chunks, ret |-> FALSE, branch |-> "invalid", count |-> 0]
        ELSE IF Len(new_chunks) = Len(chunks)
        THEN [chunks |-> chunks, ret |-> TRUE, branch |-> "clean", count |-> 0]
        ELSE [chunks |-> new_chunks, ret |-> TRUE, branch |-> "trimmed",
              count |-> Len(chunks) - Len(new_chunks)]

\* the body of clear_chat_ia_studio's with block: the cut is made at the
\* first chunk whose role is "model"; when there is none, at the last
\* reference or at the text right after it; the list is assigned only when
\* it gets shorter
ClearChunks(chunks) ==
    LET models == {i \in 1..Len(chunks) : chunks[i].role = "model"}
        refs == {i \in 1..Len(chunks) : IsReference(chunks[i])}
        doc_idx == Greatest(refs)
        cut_idx == IF models # {} THEN Least(models)
                   ELSE IF Len(chunks) > doc_idx /\ IsChunksText(chunks[doc_idx + 1])
                        THEN doc_idx + 1 ELSE doc_idx
        new_chunks == SubSeq(chunks, 1, cut_idx)
    IN  IF chunks = <<>>
        THEN [chunks |-> chunks, ret |-> TRUE, branch |-> "empty", count |-> 0]
        ELSE IF models = {} /\ refs = {}
        THEN [chunks |-> chunks, ret |-> FALSE, branch |-> "invalid", count |-> 0]
        ELSE IF Len(new_chunks) = Len(chunks)
        THEN [chunks |-> chunks, ret |-> TRUE, branch |-> "clean", count |-> 0]
        ELSE [chunks |-> new_chunks, ret |-> TRUE, branch |-> "trimmed",
              count |-> Len(chunks) - Len(new_chunks)]

\* the loop of remove_commit_tasks from position i on
RECURSIVE RemoveLoop(_, _, _, _, _)
RemoveLoop(original_chunks, i, skip_next, new_chunks, removed_count) ==
    IF i > Len(original_chunks)
    THEN [chunks |-> new_chunks, count |-> removed_count]
    ELSE IF skip_next
    THEN RemoveLoop(original_chunks, i + 1, FALSE, new_chunks, removed_count + 1)
    ELSE IF HasMarker(original_chunks[i])
    THEN RemoveLoop(original_chunks, i + 1,
                    i + 1 <= Len(original_chunks) /\ original_chunks[i + 1].role = "model",
                    new_chunks, removed_count + 1)
    ELSE RemoveLoop(original_chunks, i + 1, FALSE,
                    Append(new_chunks, original_chunks[i]), removed_count)

\* the body of remove_commit_tasks' with block
RemoveChunks(chunks) ==
    LET r == RemoveLoop(chunks, 1, FALSE, <<>>, 0)
    IN  [chunks |-> IF r.count > 0 THEN r.chunks ELSE chunks, ret |-> r.count > 0,
         branch |-> IF r.count > 0 THEN "removed" ELSE "nothing", count |-> r.count]

\* variant: the value written is not the one the test looks for
RepairChunksLower(chunks) ==
    LET broken == {i \in 1..Len(chunks) :
                     IsChunksText(chunks[i]) /\ chunks[i].finishReason # "STOP"}
    IN  [chunks |-> [i \in 1..Len(chunks) |->
                        IF i \in broken THEN [chunks[i] EXCEPT !.finishReason = "stop"]
                        ELSE chunks[i]],
         ret |-> broken # {},
         branch |-> IF broken # {} THEN "fixed" ELSE "nothing",
         count |-> Cardinality(broken)]

\* the body of repair_chat_structure's with block, and the loop of the
\* `fix` command: every text chunk whose finishReason attribute is not
\* "STOP" (None, the value of a chunk that has none, included) gets "STOP"
RepairChunks(chunks) ==
    LET broken == {i \in 1..Len(chunks) :
                     IsChunksText(chunks[i]) /\ chunks[i].finishReason # "STOP"}
    IN  [chunks |-> [i \in 1..Len(chunks) |->
                        IF i \in broken THEN [chunks[i] EXCEPT !.finishReason = "STOP"]
                        ELSE chunks[i]],
         ret |-> broken # {},
         branch |-> IF broken # {} THEN "fixed" ELSE "nothing",
         count |-> Cardinality(broken)]

\* modify_chat around a with block, r being what the block does with the
\* downloaded list: the transcript is downloaded (FileNotFoundError when
\* that fails), the block runs, and on its normal end, a return out of the
\* block included, the transcript is written back (IOError when that fails)
ModifyChat(rem, chat_id, r, dlOk, wbOk) ==
    LET rd == Call("get_content", chat_id, NoData, dlOk)
    IN  IF ~dlOk
        THEN [remote |-> rem, calls |-> <<rd>>, raised |-> TRUE, result |-> {}]
        ELSE [remote |-> UpdateFileFromMemory(rem, chat_id, r.chunks, wbOk),
              calls |-> <<rd, Call("update_file", chat_id, r.chunks, wbOk)>>,
              raised |-> ~wbOk, result |-> {r}]

\* an editor operation as its caller sees it: `except Exception` turns what
\* modify_chat raised into False, or into a count of 0
Edited(m) ==
    [remote |-> m.remote, calls |-> m.calls,
     branch |-> IF m.result = {} THEN "no_chat"
                ELSE (CHOOSE r \in m.result : TRUE).branch,
     msgs   |-> IF m.result = {} THEN {"No se pudo obtener el contenido del chat"}
                ELSE {},
     ret    |-> IF m.raised THEN FALSE ELSE (CHOOSE r \in m.result : TRUE).ret,
     count  |-> IF m.raised THEN 0 ELSE (CHOOSE r \in m.result : TRUE).count]

ClearChatIaStudio(rem, chat_id, dlOk, wbOk) ==
    Edited(ModifyChat(rem, chat_id, ClearChunks(rem[chat_id]), dlOk, wbOk))

RemoveCommitTasks(rem, chat_id, dlOk, wbOk) ==
    Edited(ModifyChat(rem, chat_id, RemoveChunks(rem[chat_id]), dlOk, wbOk))

RepairChatStructure(rem, chat_id, dlOk, wbOk) ==
    Edited(ModifyChat(rem, chat_id, RepairChunks(rem[chat_id]), dlOk, wbOk))

\* the `fix` command on the transcript: the same repair, written with
\* update_chat_file only when a chunk was fixed
FixCommand(rem, chat_id, dlOk, wbOk) ==
    LET r == RepairChunks(rem[chat_id])
        rd == Call("get_content", chat_id, NoData, dlOk)
    IN  IF ~dlOk
        THEN [remote |-> rem, calls |-> <<rd>>, branch |-> "no_chat",
              msgs |-> {"No se pudo recuperar el chat de Drive."}, ret |-> FALSE,
              count |-> 0]
        ELSE IF r.count = 0
        THEN [remote |-> rem, calls |-> <<rd>>, branch |-> "nothing",
              msgs |-> {"El chat está sano."}, ret |-> TRUE, count |-> 0]
        ELSE [remote |-> UpdateFileFromMemory(rem, chat_id, r.chunks, wbOk),
              calls |-> <<rd, Call("update_file", chat_id, r.chunks, wbOk)>>,
              branch |-> "fixed",
              msgs |-> IF wbOk THEN {"Sanación completada"}
                       ELSE {"Error al intentar guardar el chat corregido en Drive."},
              ret |-> wbOk, count |-> r.count]

\* variant: the first chunk with the marker decides
PendingInChunksFirst(chunks) ==
    LET marked == {i \in 1..Len(chunks) : HasMarker(chunks[i])}
        i == Least(marked)
    IN  /\ marked # {}
        /\ ~(i + 1 <= Len(chunks) /\ chunks[i + 1].role = "model")

\* the scan of has_pending_commit_suggestion, from the end of the list: the
\* first chunk met that holds the marker decides
PendingInChunks(chunks) ==
    LET marked == {i \in 1..Len(chunks) : HasMarker(chunks[i])}
        i == Greatest(marked)
    IN  /\ marked # {}
        /\ ~(i + 1 <= Len(chunks) /\ chunks[i + 1].role = "model")

HasPendingCommitSuggestion(rem, chat_id, dlOk) ==
    [remote |-> rem, calls |-> <<Call("get_content", chat_id, NoData, dlOk)>>,
     branch |-> IF dlOk THEN "scanned" ELSE "no_chat",
     msgs   |-> IF dlOk THEN {} ELSE {"No se pudo obtener el contenido del chat"},
     ret    |-> dlOk /\ PendingInChunks(rem[chat_id]),
     count  |-> 0]

\* a session whose transcript is any chunk list
InitEditor ==
    /\ clock = 0
    /\ fs = [f \in Files |-> [exists |-> TRUE, mtime |-> 0, text |-> <<"x", "LF">>]]
    /\ dmtime = [d \in Dirs |-> 0]
    /\ cache = GenerateContext("root")
    /\ state = [last_modified |-> dmtime["root"], md5 |-> ComputeMd5(cache),
                file_id |-> FileId, chat_id |-> ChatId,
                context_scope |-> NoValue, monitor_active |-> FALSE]
    /\ \E chunks \in ChunkedPrompt(MaxChunks) :
          remote = [id \in {FileId, ChatId} |-> IF id = FileId THEN cache ELSE chunks]
    /\ store = <<>>
    /\ snaps = <<>>
    /\ last = Idle
    /\ present = TRUE
    /\ modified = 0
    /\ mon = [running |-> FALSE, thread |-> 0, last_known_chat_mod_time |-> {}]
    /\ workers = [w \in 1..MaxWorkers |-> "none"]
    /\ fg = "idle"
    /\ taken = {}
    /\ track = [starts |-> 0, observed |-> FALSE, restored |-> {}]
    /\ saved = {}
    /\ ed = NoEditor

\* an editor operation is carried out on the remote transcript (the marker
\* Drive stamps on the document is not followed here)
DoEdit(op, r) ==
    /\ remote' = r.remote
    /\ last' = Did(op, r, FALSE)
    /\ UNCHANGED <<clock, fs, dmtime, state, cache, store, snaps>>
    /\ Quiet

\* the `clear` command
DoClear(dlOk, wbOk) ==
    DoEdit("clear", ClearChatIaStudio(remote, state.chat_id, dlOk, wbOk))

\* the `commit clean` command
DoRemoveCommitTasks(dlOk, wbOk) ==
    DoEdit("remove_commit_tasks", RemoveCommitTasks(remote, state.chat_id, dlOk, wbOk))

\* repair_chat_structure is called on the session's transcript
DoRepair(dlOk, wbOk) ==
    DoEdit("repair", RepairChatStructure(remote, state.chat_id, dlOk, wbOk))

\* has_pending_commit_suggestion is called on the session's transcript
DoHasPending(dlOk) ==
    DoEdit("has_pending", HasPendingCommitSuggestion(remote, state.chat_id, dlOk))

\* the `fix` command (no monitor thread runs here and monitor_active is not
\* set: its stop_monitoring and its conditional start_monitoring do nothing)
DoFix(dlOk, wbOk) ==
    DoEdit("fix", FixCommand(remote, state.chat_id, dlOk, wbOk))

NextEditor ==
    \/ \E dlOk, wbOk \in BOOLEAN : (dlOk \/ wbOk) /\ DoFix(dlOk, wbOk)
    \/ \E dlOk, wbOk \in BOOLEAN : (dlOk \/ wbOk) /\ DoClear(dlOk, wbOk)
    \/ \E dlOk, wbOk \in BOOLEAN : (dlOk \/ wbOk) /\ DoRemoveCommitTasks(dlOk, wbOk)
    \/ \E dlOk, wbOk \in BOOLEAN : (dlOk \/ wbOk) /\ DoRepair(dlOk, wbOk)
    \/ \E dlOk \in BOOLEAN : DoHasPending(dlOk)

SpecEditor == InitEditor /\ [][NextEditor]_vars


(***************************************************************************)
(* The `commit` command.                                                   *)
(***************************************************************************)
\* find_pending_commit_tasks: one entry for every text chunk that holds the
\* marker, whether the chunk after it comes from the model or not
FindPendingCommitTasks(chunks) ==
    {[index |-> i - 1,
      has_response |-> i + 1 <= Len(chunks) /\ chunks[i + 1].role = "model"] :
        i \in {j \in 1..Len(chunks) : HasMarker(chunks[j])}}

\* the `commit` command with its subcommand ("" for none): the transcript
\* is downloaded; clean calls remove_commit_tasks (which downloads again);
\* else the request is refused when find_pending_commit_tasks returns
\* entries and the subcommand is not force; else, when staged changes
\* exist (diff), a user's text with the marker is appended and written
CommitCommand(rem, chat_id, subcommand, dlOk, dlOk2, diff, wbOk) ==
    LET rd == <<Call("get_content", chat_id, NoData, dlOk)>>
        chunks == rem[chat_id]
        cleaned == RemoveCommitTasks(rem, chat_id, dlOk2, wbOk)
        pending_tasks == FindPendingCommitTasks(chunks)
        new_chunks == Append(chunks, ChunksText("user", TRUE, NoValue))
    IN  IF ~dlOk
        THEN [remote |-> rem, calls |-> rd, branch |-> "no_chat",
              msgs |-> {"No se pudo obtener el chat de AI Studio."}, ret |-> FALSE,
              count |-> 0]
        ELSE IF subcommand = "clean"
        THEN [remote |-> cleaned.remote, calls |-> rd \o cleaned.calls,
              branch |-> "cleaned",
              msgs |-> IF cleaned.count > 0 THEN {"Se eliminaron bloques."}
                       ELSE {"Nada que limpiar."},
              ret |-> cleaned.ret, count |-> cleaned.count]
        ELSE IF pending_tasks # {} /\ subcommand # "force"
        THEN [remote |-> rem, calls |-> rd, branch |-> "refused",
              msgs |-> {"Ya hay una sugerencia de commit pendiente en el chat."},
              ret |-> FALSE, count |-> 0]
        ELSE IF ~diff
        THEN [remote |-> rem, calls |-> rd, branch |-> "no_diff",
              msgs |-> {"No hay cambios en stage."},
              ret |-> FALSE, count |-> 0]
        ELSE [remote |-> UpdateFileFromMemory(rem, chat_id, new_chunks, wbOk),
              calls |-> rd \o <<Call("update_file", chat_id, new_chunks, wbOk)>>,
              branch |-> "appended",
              msgs |-> IF wbOk THEN {"Prompt de commit agregado al final del chat."}
                       ELSE {"Error al guardar el archivo en Drive."},
              ret |-> wbOk, count |-> 0]

\* the `commit`, `commit force` and `commit clean` commands (the transcript
\* is kept within MaxChunks + 1 chunks)
DoCommit(subcommand, dlOk, dlOk2, diff, wbOk) ==
    /\ Len(remote[state.chat_id]) <= MaxChunks
    /\ DoEdit(IF subcommand = "" THEN "commit"
              ELSE IF subcommand = "force" THEN "commit_force" ELSE "commit_clean",
              CommitCommand(remote, state.chat_id, subcommand, dlOk, dlOk2, diff, wbOk))

\* AI Studio runs the conversation: the model's answer is appended
ModelAnswers ==
    /\ Len(remote[ChatId]) <= MaxChunks
    /\ remote' = [remote EXCEPT ![ChatId] = Append(@, ChunksText("model", FALSE, "STOP"))]
    /\ last' = Idle
    /\ UNCHANGED <<clock, fs, dmtime, state, cache, store, snaps>>
    /\ Quiet

NextCommit ==
    \/ \E subcommand \in {"", "force", "clean"} : \E dlOk, dlOk2, diff, wbOk \in BOOLEAN :
          DoCommit(subcommand, dlOk, dlOk2, diff, wbOk)
    \/ ModelAnswers

SpecCommit == InitEditor /\ [][NextCommit]_vars
(***************************************************************************)
(* The `edit` command: run_editor_mode works on a draft of the transcript  *)
(* kept in memory.  Indices are the ones the user types: the first chunk   *)
(* is 0.                                                                   *)
(***************************************************************************)
\* the indices the user can type, some of them past the end of any draft
EditorIndices == 0..(MaxChunks + 1)

\* the chunks of a list without the ones at the indices of gone
WithoutIndices(chunks, gone) ==
    LET keep == {i \in 1..Len(chunks) : (i - 1) \notin gone}
    IN  [k \in 1..Cardinality(keep) |->
            chunks[CHOOSE i \in keep : Cardinality({j \in keep : j <= i}) = k]]

\* variant: index 0 is removed like any other
ValidIndicesAll(chunks, start, end) ==
    {i \in Least({start, end})..Greatest({start, end}) : 0 <= i /\ i <= Len(chunks) - 1}

\* rm: the indices of `rm N` (start = end) or `rm N-M` (swapped when N > M)
\* that are removed: 0 is discarded, and so is what lies past the end
ValidIndices(chunks, start, end) ==
    {i \in (Least({start, end})..Greatest({start, end})) \ {0} : 0 < i /\ i <= Len(chunks) - 1}

\* run_editor_mode up to its loop: the transcript is downloaded and copied
RunEditorMode(dlOk) ==
    /\ ~ed.open
    /\ ed' = IF dlOk
             THEN [open |-> TRUE, chat_data |-> remote[state.chat_id],
                   chunks |-> remote[state.chat_id], unsaved_changes |-> FALSE]
             ELSE ed
    /\ last' = Did("editor_open",
                   [branch |-> IF dlOk THEN "loaded" ELSE "no_chat",
                    calls |-> <<Call("get_content", state.chat_id, NoData, dlOk)>>,
                    msgs |-> IF dlOk THEN {} ELSE {"Error descargando chat."}], FALSE)
    /\ UNCHANGED <<clock, fs, dmtime, state, remote, cache, store, snaps,
                   present, modified, mon, workers, fg, taken, track, saved>>

\* rm <id> and rm <start>-<end>; parsed is false for an argument that is
\* missing or is neither a number nor a range of two numbers
EditorRm(parsed, start, end) ==
    LET valid_indices == ValidIndices(ed.chunks, start, end)
        protected == IF 0 \in Least({start, end})..Greatest({start, end})
                     THEN {"El índice 0 (Contexto) está protegido y no se borrará."}
                     ELSE {}
    IN  /\ ed.open
        /\ ed' = IF parsed /\ valid_indices # {}
                 THEN [ed EXCEPT !.chunks = WithoutIndices(ed.chunks, valid_indices),
                                 !.unsaved_changes = TRUE]
                 ELSE ed
        /\ last' = Did("editor_rm",
                       [branch |-> IF ~parsed THEN "invalid"
                                   ELSE IF valid_indices = {} THEN "nothing" ELSE "removed",
                        calls |-> <<>>,
                        msgs |-> IF parsed THEN protected ELSE {"Formato inválido."},
                        count |-> IF parsed THEN Cardinality(valid_indices) ELSE 0], FALSE)
        /\ UNCHANGED <<clock, fs, dmtime, state, remote, cache, store, snaps,
                       present, modified, mon, workers, fg, taken, track, saved>>

\* pop [n]: the last chunk is removed n times, while more than one is left
EditorPop(count) ==
    LET room == IF Len(ed.chunks) > 1 THEN Len(ed.chunks) - 1 ELSE 0
        popped == IF count < room THEN count ELSE room
    IN  /\ ed.open
        /\ ed' = [ed EXCEPT !.chunks = SubSeq(ed.chunks, 1, Len(ed.chunks) - popped),
                            !.unsaved_changes = @ \/ popped > 0]
        /\ last' = Did("editor_pop",
                       [branch |-> IF popped > 0 THEN "popped" ELSE "nothing",
                        calls |-> <<>>, msgs |-> {}, count |-> popped], FALSE)
        /\ UNCHANGED <<clock, fs, dmtime, state, remote, cache, store, snaps,
                       present, modified, mon, workers, fg, taken, track, saved>>

\* save: without unsaved changes nothing is done; else the draft is put
\* into chat_data and written with update_chat_file
EditorSave(wbOk) ==
    /\ ed.open
    /\ ed' = IF ed.unsaved_changes
             THEN [ed EXCEPT !.chat_data = ed.chunks, !.unsaved_changes = ~wbOk]
             ELSE ed
    /\ remote' = IF ed.unsaved_changes
                 THEN UpdateFileFromMemory(remote, state.chat_id, ed.chunks, wbOk)
                 ELSE remote
    /\ last' = Did("editor_save",
                   [branch |-> IF ~ed.unsaved_changes THEN "no_changes"
                               ELSE IF wbOk THEN "saved" ELSE "not_saved",
                    calls |-> IF ed.unsaved_changes
                              THEN <<Call("update_file", state.chat_id, ed.chunks, wbOk)>>
                              ELSE <<>>,
                    msgs |-> IF ~ed.unsaved_changes THEN {"No hay cambios."}
                             ELSE IF wbOk THEN {"¡Guardado exitoso!"}
                             ELSE {"Error al guardar."},
                    ret |-> ed.unsaved_changes /\ wbOk], FALSE)
    /\ UNCHANGED <<clock, fs, dmtime, state, cache, store, snaps,
                   present, modified, mon, workers, fg, taken, track, saved>>

\* exit, back, q (unsaved changes are discarded on confirmation), and the
\* end of input
EditorExit ==
    /\ ed.open
    /\ ed' = NoEditor
    /\ last' = Idle
    /\ UNCHANGED <<clock, fs, dmtime, state, remote, cache, store, snaps,
                   present, modified, mon, workers, fg, taken, track, saved>>

NextDraft ==
    \/ \E dlOk \in BOOLEAN : RunEditorMode(dlOk)
    \/ \E parsed \in BOOLEAN : \E start, end \in EditorIndices : EditorRm(parsed, start, end)
    \/ \E count \in EditorIndices : EditorPop(count)
    \/ \E wbOk \in BOOLEAN : EditorSave(wbOk)
    \/ EditorExit

SpecDraft == InitEditor /\ [][NextDraft]_vars

(***************************************************************************)
(* Vocabulary of the properties.                                           *)
(***************************************************************************)
\* the regular files below folder that the ignore rules keep and whose
\* modification time is strictly greater than t
NewerFiles(t, folder) ==
    {f \in Files : /\ f \in Under(folder)
                   /\ fs[f].exists
                   /\ ~Ignored(f, folder)
                   /\ fs[f].mtime > t}

\* a step that is a call of update_context (by `update` or by `context`)
UcStep == last'.op \in UcOps

\* the record update_context received in such a step
UcPre == [state EXCEPT !.context_scope = state'.context_scope]

\* update_context found a modified file / the digest it computed
UcDetected == NewerFiles(UcPre.last_modified, TargetPath(UcPre)) # {}
UcNewContent == GenerateContext(TargetPath(UcPre))
UcNewMd5 == ComputeMd5(UcNewContent)

\* the fields of the state record other than last_modified
OtherFields == {"md5", "file_id", "chat_id", "context_scope", "monitor_active"}

\* C1: update_context, files modified but the regenerated context has the
\* digest already in state.md5: no write is issued to the context document
\* and last_modified is the only field of the record that can change.
C1_IdenticalContentWritesNothing ==
    [][(UcStep /\ UcDetected /\ UcNewMd5 = UcPre.md5)
        => /\ Writes(last'.calls) = {}
           /\ remote' = remote
           /\ \A k \in OtherFields : state'[k] = UcPre[k]]_vars

C1_Witness ==
    /\ last.op = "update"
    /\ last.branch = "identical"
    /\ fs["a"].mtime > 0

\* C2: update_context, files modified and the digest differs: the new content
\* is written to the context document exactly once, addressed to
\* state.file_id, state.md5 is the new digest on return and
\* state.last_modified has moved forward.
C2_PushOnceAndAdvance ==
    [][(UcStep /\ UcDetected /\ UcNewMd5 # UcPre.md5)
        => /\ Cardinality(WritesTo(last'.calls, UcPre.file_id)) = 1
           /\ \A i \in WritesTo(last'.calls, UcPre.file_id) :
                 last'.calls[i].data = UcNewContent
           /\ state'.md5 = UcNewMd5
           /\ state'.last_modified > UcPre.last_modified]_vars

\* C3: update_context, no kept file below the scan root is newer than
\* state.last_modified: the record is returned unchanged, no remote call is
\* made (no read, no write) and the local context cache is not rewritten.
C3_UpToDateTouchesNothing ==
    [][(UcStep /\ ~UcDetected)
        => /\ state' = UcPre
           /\ last'.calls = <<>>
           /\ remote' = remote
           /\ cache' = cache]_vars

C3_Witness ==
    /\ last.op = "update"
    /\ last.branch = "up_to_date"
    /\ fs["g"].mtime > state.last_modified
    /\ dmtime["sub"] > state.last_modified

C5_FailedPushLeavesState ==
    [][(UcStep /\ \E i \in WritesTo(last'.calls, UcPre.file_id) : ~last'.calls[i].ok)
        => /\ last'.raised
           /\ state'.md5 = UcPre.md5
           /\ state'.last_modified = UcPre.last_modified]_vars

\* the three ways the token-count annotation can fail after the push
AnnotationFailure ==
    {k \in {"chat_download_error", "context_block_not_found", "chat_write_error"} :
        \/ /\ k = "chat_download_error"
           /\ \E i \in 1..Len(last'.calls) :
                 last'.calls[i].call = "get_content" /\ ~last'.calls[i].ok
        \/ /\ k = "context_block_not_found"
           /\ \E i \in 1..Len(last'.calls) :
                 last'.calls[i].call = "get_content" /\ last'.calls[i].ok
           /\ remote[UcPre.chat_id].docId # UcPre.file_id
        \/ /\ k = "chat_write_error"
           /\ \E i \in WritesTo(last'.calls, UcPre.chat_id) : ~last'.calls[i].ok}

C8_ModifiedSinceIsStrict ==
    \A t \in 0..MaxClock : \A folder \in Dirs :
        HasFilesModifiedSince(t, folder) <=> (NewerFiles(t, folder) # {})

C8_Witness ==
    /\ fs["a"].mtime = clock
    /\ clock > 0
    /\ fs["g"].mtime = clock
    /\ HasFilesModifiedSince(clock - 1, "root")
    /\ ~HasFilesModifiedSince(clock, "root")
    /\ ~HasFilesModifiedSince(clock - 1, "sub")

\* C6: after any sequence of update_context, rebuild_project_context and
\* restore_snapshot calls, failed remote calls included, state.md5 is the
\* digest of the bytes last written to the context document with success.
C6_Md5MatchesRemote ==
    state.md5 = ComputeMd5(remote[state.file_id])

\* C9: every entry of the content store holds, under key h, bytes whose
\* digest is h.
C9_StoreIsContentAddressed ==
    \A h \in DOMAIN store : ComputeMd5(store[h]) = h

\* C10: once an entry exists under a digest, no operation changes or removes
\* the bytes stored under it.
C10_StoreEntriesImmutable ==
    [][\A h \in DOMAIN store : h \in DOMAIN store' /\ store'[h] = store[h]]_vars

C10_Witness ==
    /\ last.op = "save"
    /\ state.md5 \in DOMAIN store
    /\ store[state.md5] # cache

(***************************************************************************)
(* Vocabulary of the snapshot properties.                                  *)
(***************************************************************************)
\* a step that is a call of create_named_snapshot / of restore_snapshot
SaveStep == last'.op = "save"
RestoreStep == last'.op = "restore"

\* the folder of a timestamp holds a whole record: info.json, chat.prompt
FullRecord(sn, timestamp) ==
    /\ timestamp \in DOMAIN sn
    /\ sn[timestamp].info # {}
    /\ sn[timestamp].chat # {}

\* the digest the info.json of a snapshot refers to
ContextMd5Of(sn, timestamp) == (CHOOSE i \in sn[timestamp].info : TRUE).context_md5

\* the step is restore_snapshot(timestamp) with the given write outcomes
RestoreOf(timestamp, ctxOk, chatOk) ==
    /\ RestoreStep
    /\ Restore(timestamp, ctxOk, chatOk)

\* C11: create_snapshot, the store holds an entry under state.md5 whose
\* bytes are not those of the local context cache: the call stops with an
\* error and writes no snapshot record, it does not go on with the entry.
C11_CollisionDetected ==
    [][(/\ SaveStep
        /\ state.md5 \in DOMAIN store
        /\ present
        /\ store[state.md5] # cache)
        => /\ last'.msgs # {}
           /\ \A t \in DOMAIN snaps' :
                 t \in DOMAIN snaps /\ snaps'[t] = snaps[t]]_vars

\* C12: a restore_snapshot(t) whose two writes succeed leaves in the remote
\* transcript the bytes every snapshot created under t downloaded, and in
\* the context document the bytes whose digest that snapshot recorded.
C12_RestoreRoundTrip ==
    [][\A t \in 0..MaxClock :
          (RestoreOf(t, TRUE, TRUE) /\ last'.ret)
          => \A S \in taken :
                S.timestamp = t
                => /\ remote'[state.chat_id] = S.chat
                   /\ ComputeMd5(remote'[state.file_id]) = S.context_md5]_vars

\* C13: restore_snapshot of an unknown id, or of a snapshot whose
\* context_md5 has no entry in the store: False is returned, no remote write
\* is issued, state.md5 and the context cache stay as they were.
C13_RestoreFailsCleanly ==
    [][\A t \in 0..MaxClock : \A o \in BOOLEAN \X BOOLEAN :
          (/\ RestoreOf(t, o[1], o[2])
           /\ \/ t \notin DOMAIN snaps
              \/ /\ snaps[t].info # {}
                 /\ ContextMd5Of(snaps, t) \notin DOMAIN store)
          => /\ ~last'.ret
             /\ Writes(last'.calls) = {}
             /\ remote' = remote
             /\ state'.md5 = state.md5
             /\ cache' = cache
             /\ present' = present]_vars

C13_Witness ==
    /\ last.op = "restore"
    /\ ~last.ret
    /\ \E t \in DOMAIN snaps :
          /\ FullRecord(snaps, t)
          /\ ContextMd5Of(snaps, t) \notin DOMAIN store
    /\ last.msgs = {"context_not_in_store"}

\* C14: restore_snapshot, one of its two remote writes fails: the state
\* record is what it was before the call and success is not reported.
C14_FailedRestoreLeavesState ==
    [][(RestoreStep /\ \E i \in Writes(last'.calls) : ~last'.calls[i].ok)
        => /\ state' = state
           /\ ~last'.ret]_vars

\* C15: restore_snapshot returns True: state.md5 is the snapshot's
\* context_md5, the context cache holds the store's bytes for that digest,
\* both documents were written, the context document first, and a write
\* that went through left the snapshot's bytes in the document.
C15_RestoreSuccess ==
    [][\A t \in 0..MaxClock : \A o \in BOOLEAN \X BOOLEAN :
          (RestoreOf(t, o[1], o[2]) /\ last'.ret)
          => LET h   == ContextMd5Of(snaps, t)
                 ctx == WritesTo(last'.calls, state.file_id)
                 cht == WritesTo(last'.calls, state.chat_id)
             IN  /\ state'.md5 = h
                 /\ present'
                 /\ cache' = store[h]
                 /\ ctx # {} /\ cht # {}
                 /\ \A i \in ctx : \A j \in cht : i < j
                 /\ \A i \in ctx : last'.calls[i].data = store[h]
                 /\ o[1] => remote'[state.file_id] = store[h]
                 /\ o[2] => remote'[state.chat_id] \in snaps[t].chat]_vars

C15_Witness ==
    /\ last.op = "restore"
    /\ last.ret
    /\ state.md5 # ComputeMd5(GenerateContext("root"))
    /\ cache = store[state.md5]
    /\ remote[state.file_id] = cache
    /\ modified > 0
    /\ remote[state.chat_id].body = FreshBody

\* C16: create_snapshot, the store has no entry for state.md5 and there is
\* no local context cache to copy (state.md5 itself is set in every record
\* the program builds): no record and no folder is made and the transcript
\* is not downloaded.
C16_AbortLeavesNothing ==
    [][(SaveStep /\ ~present /\ state.md5 \notin DOMAIN store)
        => /\ snaps' = snaps
           /\ store' = store
           /\ \A i \in 1..Len(last'.calls) : last'.calls[i].call # "get_content"]_vars

\* C17: after a create_snapshot call the folder of its timestamp either
\* holds the whole record (info.json, chat.prompt, the context in the store)
\* or does not exist; a failed download leaves no folder.
C17_SnapshotAllOrNothing ==
    [][SaveStep
        => \/ Timestamp \notin DOMAIN snaps'
           \/ /\ FullRecord(snaps', Timestamp)
              /\ ContextMd5Of(snaps', Timestamp) \in DOMAIN store']_vars

\* a step in which create_snapshot wrote a record, by `save` or by a poll
CreateStep == last'.op \in {"save", "auto"} /\ last'.branch = "created"

\* C18: a create_snapshot call that writes a record uses a timestamp no
\* existing snapshot has, and no later creation changes the metadata or the
\* transcript bytes of a snapshot that exists, two creations in the same
\* second included.
C18_SnapshotsImmutable ==
    [][/\ CreateStep => ~FullRecord(snaps, Timestamp)
       /\ \A t \in DOMAIN snaps :
             FullRecord(snaps, t) => (t \in DOMAIN snaps' /\ snaps'[t] = snaps[t])]_vars

\* C19: whatever start_monitoring and stop_monitoring calls were made, at
\* most one worker thread is inside _loop.
C19_AtMostOneWorker == Cardinality(Alive) <= 1

\* C20: once running is cleared, unless it is set again, every worker
\* leaves _loop in the end; and a worker enters a poll iteration only when
\* it has just found running set.
C20_WorkerStops ==
    /\ (~mon.running) ~> (mon.running \/ Alive = {})
    /\ [][\A w \in Workers :
             (workers[w] # "poll" /\ workers'[w] = "poll") => mon.running]_vars

C20_Witness ==
    /\ ~mon.running
    /\ Alive = {}
    /\ mon.thread # 0
    /\ mon.last_known_chat_mod_time # {}
    /\ fg = "idle"
    /\ snaps # <<>>


(***************************************************************************)
(* The poll loop across starts, stops and restores.                        *)
(***************************************************************************)
\* a worker's poll iteration ends with this step
PollStep == \E w \in Workers : workers[w] = "poll" /\ workers'[w] = "sleep"
\* the iteration fetched the transcript's marker
Fetched == last'.calls[1].call = "get_metadata" /\ last'.calls[1].ok
\* the iteration is the first to fetch a marker since the monitor was started
FirstObservation == PollStep /\ ~track.observed /\ track'.observed
\* the iteration called create_snapshot
SnapshotInvoked == last'.branch \in {"created", "no_chat", "no_context", "raised"}
\* nothing of the snapshot area changes
NoSnapshotWork == snaps' = snaps /\ store' = store /\ taken' = taken

\* C21: the first poll iteration that fetches a marker after the first
\* start_monitoring of the manager calls create_snapshot for no value of
\* the marker: no folder, no store entry and no record are written
C21_FirstStartIsQuiet ==
    [][(FirstObservation /\ track.starts = 1)
          => (~SnapshotInvoked /\ NoSnapshotWork)]_vars

\* the first observation after the first start was made while the marker
\* was no longer the initial one
C21_Witness ==
    /\ track.starts = 1
    /\ track.observed
    /\ last.op = "auto"
    /\ last.branch = "same_marker"
    /\ modified > 0
    /\ mon.last_known_chat_mod_time = {modified}

\* C22: the first poll iteration that fetches a marker after any
\* start_monitoring call is compared with no earlier marker and creates no
\* snapshot, also when the transcript changed while the monitor was stopped
C22_ResumeIsQuiet ==
    [][FirstObservation => (~SnapshotInvoked /\ NoSnapshotWork)]_vars

\* C23: a poll iteration that fetched a marker calls create_snapshot with
\* it when an earlier marker exists and differs, and leaves the fetched
\* marker as the observed one, also when create_snapshot aborted or raised
C23_PollIteration ==
    [][(PollStep /\ Fetched)
          => /\ (mon.last_known_chat_mod_time \notin {{}, {modified}})
                  => /\ SnapshotInvoked
                     /\ last'.branch = "created"
                          => \E i \in snaps'[clock].info : i.drive_modified_time = modified
             /\ mon'.last_known_chat_mod_time = {modified}]_vars

\* C24: once restore_snapshot has run after stop_monitoring, no poll
\* iteration takes the marker that the restore's own write left on the
\* transcript for a remote change: none calls create_snapshot on it
C24_NoSnapshotAfterRestore ==
    [][(PollStep /\ Fetched /\ modified \in track.restored)
          => (~SnapshotInvoked /\ NoSnapshotWork)]_vars


(***************************************************************************)
(* The transcript editor.                                                  *)
(***************************************************************************)
\* the chunk list the step's operation was run on
Input == remote[ChatId]
\* the operation downloaded the transcript
Downloaded == last'.calls[1].call = "get_content" /\ last'.calls[1].ok
\* the chunk list the operation ended with: what it sent to Drive, or the
\* list it left alone when it sent nothing
Output ==
    IF WritesTo(last'.calls, ChatId) = {} THEN Input
    ELSE last'.calls[Greatest(WritesTo(last'.calls, ChatId))].data
\* the chunks of a list that come from the model, are references, hold the marker
ModelChunks(chunks) == {i \in 1..Len(chunks) : chunks[i].role = "model"}
References(chunks) == {i \in 1..Len(chunks) : chunks[i].kind \in {"doc", "image"}}
Marked(chunks) == {i \in 1..Len(chunks) : chunks[i].kind = "text" /\ chunks[i].marker}
\* the chunks of a list at the positions of keep, in their order
RECURSIVE Kept(_, _, _)
Kept(chunks, keep, i) ==
    IF i > Len(chunks) THEN <<>>
    ELSE IF i \in keep THEN <<chunks[i]>> \o Kept(chunks, keep, i + 1)
    ELSE Kept(chunks, keep, i + 1)

\* C25: clear_chat_ia_studio and remove_commit_tasks, run on a list of one
\* chunk or more, leave a list whose first chunk is the first chunk of the
\* list they were run on
C25_ProtectedPrefix ==
    [][(last'.op \in {"clear", "remove_commit_tasks"} /\ Len(Input) >= 1)
          => /\ Len(Output) >= 1 /\ Output[1] = Input[1]
             /\ Len(remote'[ChatId]) >= 1 /\ remote'[ChatId][1] = Input[1]]_vars

\* C26: clear_chat_ia_studio, remove_commit_tasks and repair_chat_structure
\* write the transcript only when they changed its list: every write they
\* issue carries a list other than the one they downloaded
C26_WriteOnlyIfChanged ==
    [][(last'.op \in {"clear", "remove_commit_tasks", "repair"})
          => \A i \in WritesTo(last'.calls, ChatId) : last'.calls[i].data # Input]_vars

\* C27: clear_chat_ia_studio on a transcript with a chunk of the model ends
\* with the chunks up to the first such chunk, unaltered and in their order,
\* and with nothing else; a write that Drive carries out leaves that list
\* as the transcript
C27_TrimAtFirstModel ==
    [][(last'.op = "clear" /\ Downloaded /\ ModelChunks(Input) # {})
          => LET k == Least(ModelChunks(Input))
             IN  /\ Len(Output) = k
                 /\ \A i \in 1..k : Output[i] = Input[i]
                 /\ remote'[ChatId] \in {Output, Input}
                 /\ (last'.ret \/ k = Len(Input)) => remote'[ChatId] = Output]_vars

\* a transcript was cut behind the first answer of the model, which was not
\* its first chunk
C27_Witness ==
    /\ last.op = "clear"
    /\ last.branch = "trimmed"
    /\ last.ret
    /\ last.count = 1
    /\ remote[ChatId] = last.calls[2].data
    /\ Len(remote[ChatId]) = 2
    /\ remote[ChatId][1].kind = "doc"
    /\ remote[ChatId][2].role = "model"

\* the cut of clear_chat_ia_studio on a list without a chunk of the model
\* and with a reference: the last reference, or the text right after it
AnchorCut(chunks) ==
    LET d == Greatest(References(chunks))
    IN  IF d < Len(chunks) /\ chunks[d + 1].kind = "text" THEN d + 1 ELSE d

Paired(chunks) ==
    Marked(chunks) \cup {i \in 2..Len(chunks) :
                           (i - 1) \in Marked(chunks) /\ chunks[i].role = "model"}

\* C29: remove_commit_tasks ends with the list without its chunks that hold
\* the marker and without the chunk right after each of them when that one
\* comes from the model, the others in their order, and returns the number
\* of chunks that went
C29_Pairing ==
    [][(last'.op = "remove_commit_tasks" /\ Downloaded)
          => /\ Output = Kept(Input, (1..Len(Input)) \ Paired(Input), 1)
             /\ last'.calls[2].ok => last'.count = Len(Input) - Len(Output)]_vars

\* C30: has_pending_commit_suggestion, given the transcript, returns True
\* exactly when a chunk holds the marker and the last such chunk is not
\* followed at once by a chunk of the model; it returns False when the
\* transcript cannot be downloaded
C30_PendingIffLastUnanswered ==
    [][(last'.op = "has_pending")
          => IF Downloaded
             THEN last'.ret <=>
                    \E i \in Marked(Input) :
                       /\ \A j \in Marked(Input) : j <= i
                       /\ ~(i < Len(Input) /\ Input[i + 1].role = "model")
             ELSE ~last'.ret]_vars

\* a task was found waiting behind an earlier task that has its answer
C30_Witness ==
    /\ last.op = "has_pending"
    /\ last.ret
    /\ Cardinality(Marked(remote[ChatId])) = 2
    /\ 1 \in Marked(remote[ChatId])
    /\ remote[ChatId][2].role = "model"
    /\ 3 \in Marked(remote[ChatId])

\* the texts of a list whose finishReason is set and is not "STOP"
Unfinished(chunks) ==
    {i \in 1..Len(chunks) :
        chunks[i].kind = "text" /\ chunks[i].finishReason \notin {NoValue, "STOP"}}

\* C31: a repair (repair_chat_structure or `fix`) that follows a repair
\* whose write was carried out reports no fixed chunk and leaves the list
\* of the transcript as it is
C31_RepairIdempotent ==
    [][(/\ last.op \in {"repair", "fix"}
        /\ Len(last.calls) >= 1 /\ last.calls[1].ok
        /\ \A i \in WritesTo(last.calls, ChatId) : last.calls[i].ok
        /\ last'.op \in {"repair", "fix"}
        /\ Downloaded)
          => /\ last'.count = 0
             /\ Output = Input
             /\ remote'[ChatId] = Input]_vars

\* a second repair found nothing to fix in a list that the first repair
\* had changed
C31_Witness ==
    /\ last.op \in {"repair", "fix"}
    /\ last.branch = "nothing"
    /\ last.count = 0
    /\ \E i \in 1..Len(remote[ChatId]) :
          /\ remote[ChatId][i].kind = "text"
          /\ remote[ChatId][i].role = "user"
          /\ remote[ChatId][i].finishReason = "STOP"

\* C32: the repair changes the texts whose finishReason is set and is not
\* "STOP" and no other chunk (texts without finishReason, documents and
\* images stay as they are), counts those texts only, and keeps the number
\* and the order of the chunks
C32_RepairFrame ==
    [][(last'.op \in {"repair", "fix"} /\ Downloaded)
          => /\ Len(Output) = Len(Input)
             /\ \A i \in (1..Len(Input)) \ Unfinished(Input) : Output[i] = Input[i]
             /\ \A i \in Unfinished(Input) :
                   Output[i] = [Input[i] EXCEPT !.finishReason = "STOP"]
             /\ (\A i \in WritesTo(last'.calls, ChatId) : last'.calls[i].ok)
                   => last'.count = Cardinality(Unfinished(Input))]_vars

(***************************************************************************)
(* The session's commands.                                                 *)
(***************************************************************************)
\* the command of the step ended without a failure: every remote call it
\* made was carried out, nothing was raised, a restore returned True
Completed ==
    /\ \A i \in 1..Len(last'.calls) : last'.calls[i].ok
    /\ ~last'.raised
    /\ last'.op = "restore" => last'.ret

\* C34: when update, reset, context or restore has completed, the record
\* in the state file is the session's state record, its md5 included
C34_StatePersisted ==
    [][(last'.op \in {"update", "context", "rebuild", "restore"} /\ Completed)
          => saved' = {state'}]_vars

\* C35: when the `context` command has completed, with a sub-path or with
\* reset, the context document and state.md5 are those of the content
\* generated from the scope the command set (the whole project for reset),
\* whatever the state before and whether or not a file of the scope is
\* newer than state.last_modified
C35_ScopeIsApplied ==
    [][(last'.op = "context" /\ Completed)
          => /\ remote'[state'.file_id] = GenerateContext(TargetPath(state'))
             /\ state'.md5 = ComputeMd5(GenerateContext(TargetPath(state')))]_vars

\* C36: when update_context has set state.last_modified (identical digest,
\* or push), no kept file below the scan root is newer than it, and an
\* update_context that follows at once ends at the timestamp test
C36_LastModifiedCoversScan ==
    [][/\ (UcStep /\ last'.branch \in {"identical", "push"})
            => {f \in Files : /\ f \in Under(TargetPath(state'))
                              /\ fs'[f].exists
                              /\ ~Ignored(f, TargetPath(state'))
                              /\ fs'[f].mtime > state'.last_modified} = {}
       /\ (last.op \in UcOps /\ last.branch \in {"identical", "push"} /\ last'.op = "update")
            => last'.branch = "up_to_date"]_vars

\* C37: every id that get_all_snapshot_ids returns can be restored: its
\* folder holds the transcript and the digest its info.json records has an
\* entry in the content store, creations that aborted or failed included
C37_ListedIsRestorable ==
    \A timestamp \in GetAllSnapshotIds(snaps) :
        /\ snaps[timestamp].chat # {}
        /\ \A i \in snaps[timestamp].info : i.context_md5 \in DOMAIN store

\* a snapshot is listed while a creation that failed left its empty folder
C37_Witness ==
    /\ GetAllSnapshotIds(snaps) # {}
    /\ \E timestamp \in DOMAIN snaps : snaps[timestamp] = EmptyFolder

\* the poll iteration of the step failed: it raised, or the metadata of the
\* transcript could not be fetched
PollFailed ==
    /\ last'.op = "auto"
    /\ last'.raised \/ last'.branch = "no_metadata"

\* C38: a poll iteration that raises or whose metadata call fails does not
\* end the worker, which goes to its sleep interval; and a worker whose
\* interval is over attempts another poll iteration, unless the manager
\* stopped running
C38_WorkerSurvivesFailure ==
    /\ [][PollFailed =>
            \A w \in Workers : workers[w] = "poll" /\ workers'[w] # "poll"
                                    => workers'[w] = "sleep"]_vars
    /\ \A w \in Workers :
          (workers[w] = "rested") ~> (workers[w] = "poll" \/ ~mon.running)

\* a poll iteration has just failed and its worker sleeps while the manager
\* still runs
C38_Witness ==
    /\ last.op = "auto"
    /\ last.raised
    /\ mon.running
    /\ \E w \in Workers : workers[w] = "sleep"

(***************************************************************************)
(* The draft of the `edit` command.                                        *)
(***************************************************************************)
\* C39: while the editor works on a transcript that was loaded with a chunk
\* at least, its draft is never empty and begins with the chunk that was
\* loaded at index 0, whatever rm and pop commands are given; and the
\* transcript document is written by no step but a save that finds unsaved
\* changes
C39_DraftKeepsContext ==
    /\ [](IF ed.open /\ Len(ed.chat_data) >= 1
          THEN Len(ed.chunks) >= 1 /\ ed.chunks[1] = ed.chat_data[1]
          ELSE TRUE)
    /\ [][(remote' # remote \/ Writes(last'.calls) # {})
             => last'.op = "editor_save" /\ ed.unsaved_changes]_vars

\* an rm whose range began at the protected index 0 and went past the end
\* has removed every chunk of a draft of three but the first
C39_Witness ==
    /\ ed.open
    /\ last.op = "editor_rm"
    /\ last.msgs # {}
    /\ last.count = 2
    /\ Len(ed.chat_data) = 3
    /\ Len(ed.chunks) = 1

(***************************************************************************)
(* The `commit` command.                                                   *)
(***************************************************************************)
\* C40: `commit` without force, given the transcript, refuses to append its
\* request exactly when a chunk holds the marker and the last such chunk is
\* not followed at once by a chunk of the model; a transcript whose marker
\* chunks are all answered is not refused
C40_RefusesOnlyPending ==
    [][(last'.op = "commit" /\ Downloaded)
          => (last'.branch = "refused" <=> PendingInChunks(Input))]_vars

(***************************************************************************)
(* The session's commands and the monitor.                                 *)
(***************************************************************************)
\* the commands of the session that write to a document of Drive
WritingCommands ==
    {"update", "context", "rebuild", "restore", "clear", "fix", "commit",
     "commit_force", "commit_clean", "remove_commit_tasks", "editor_save"}

\* C33: a command of the session that writes to the context document or to
\* the transcript does so with the manager's running flag cleared: the flag
\* was clear when the command began, or the command's stop_monitoring
\* cleared it
C33_StoppedBeforeWrite ==
    [][(last'.op \in WritingCommands /\ Writes(last'.calls) # {})
          => (~mon.running \/ ~mon'.running)]_vars

====
